---- MODULE Spec2Model ----
(***************************************************************************)
(* A model of rustversion-detect: the Date and RustVersion comparison      *)
(* functions (src/src/date.rs, src/src/version.rs), the StableVersionSpec  *)
(* text format (Display / FromStr), the `rustc --version` parser of the    *)
(* build script (src/build/rustc.rs) and main of the build script          *)
(* (src/build/build.rs), whose output the crate is compiled with           *)
(* (src/src/lib.rs).                                                       *)
(*                                                                         *)
(* The library functions are pure.  Each is an operator computed as the    *)
(* source computes it, and each specification below is a harness that      *)
(* draws the receiver from a bounded set, calls one function with          *)
(* arguments drawn from a bounded set and records the call in `call`.      *)
(* Text is a sequence of one-character strings.                            *)
(***************************************************************************)
EXTENDS Integers, Sequences, FiniteSets, TLC

VARIABLES
    has_const_panic,  \* cfg(has_const_panic): validation compiled in
    date,             \* a Date: the receiver of Date::is_since / is_before
    start,            \* a Date: the argument of the date comparisons
    rv,               \* a RustVersion: the receiver of the version queries
    spec,             \* a StableVersionSpec: the value that is displayed
    text,             \* a string: the input of a parser
    call,             \* the last call made: [op, args, panic, ret]
    pc,               \* where the caller stands: the name of what it
                      \* is about to use, then how far it has come
    is_clippy_driver, \* build.rs: the retry flag of main
    commands,         \* build.rs: the argument lists of the commands run
    version,          \* build.rs: the version the loop of main breaks with
    cfgs,             \* build.rs: the cargo:rustc-cfg lines printed
    version_expr      \* build.rs: the file $OUT_DIR/version.expr

build_vars == <<is_clippy_driver, commands, version, cfgs, version_expr>>

vars ==
    <<has_const_panic, date, start, rv, spec, text, call, pc,
      is_clippy_driver, commands, version, cfgs, version_expr>>

-----------------------------------------------------------------------------
(* Bounds of the model. *)

MaxYear == 2
MaxMajor == 2
MaxMinor == 2
MaxPatch == 2
MaxNum == 11
MaxParts == 4
MaxLines == 3
MaxTail == 3
MaxBanners == 1

(* Program constants. *)

MonthMax == 12
DayMax == 31

-----------------------------------------------------------------------------
(* Values. *)

Date(y, m, d) == [year |-> y, month |-> m, day |-> d]

ZeroDate == Date(0, 0, 0)

Channel(k, d) == [kind |-> k, date |-> d]

Stable == Channel("Stable", ZeroDate)
Beta == Channel("Beta", ZeroDate)
Dev == Channel("Dev", ZeroDate)
Nightly(d) == Channel("Nightly", d)

RustVersion(ma, mi, pa, ch) ==
    [major |-> ma, minor |-> mi, patch |-> pa, channel |-> ch]

None == [some |-> FALSE, val |-> 0]
Some(x) == [some |-> TRUE, val |-> x]

StableVersionSpec(ma, mi, pa) == [major |-> ma, minor |-> mi, patch |-> pa]

NoPanic == ""
Returned(v) == [panic |-> NoPanic, val |-> v]
Panicked(msg) == [panic |-> msg, val |-> FALSE]

-----------------------------------------------------------------------------
(* src/src/date.rs *)

(* Date::new with the month checked before the year. *)
Date_new_month_first(year, month, day) ==
    IF has_const_panic /\ ~(month >= 1 /\ month <= MonthMax)
        THEN Panicked("Invalid month")
    ELSE IF has_const_panic /\ ~(year >= 1) THEN Panicked("Invalid year")
    ELSE IF has_const_panic /\ ~(day >= 1 /\ day <= DayMax)
        THEN Panicked("Invalid day of month")
    ELSE Returned(Date(year, month, day))

Date_new(year, month, day) ==
    IF has_const_panic /\ ~(year >= 1) THEN Panicked("Invalid year")
    ELSE IF has_const_panic /\ ~(month >= 1 /\ month <= MonthMax)
        THEN Panicked("Invalid month")
    ELSE IF has_const_panic /\ ~(day >= 1 /\ day <= DayMax)
        THEN Panicked("Invalid day of month")
    ELSE Returned(Date(year, month, day))

(* Date::is_since with a strict comparison of the days. *)
Date_is_since_strict_day(self, st) ==
    \/ self.year > st.year
    \/ /\ self.year = st.year
       /\ \/ self.month > st.month
          \/ (self.month = st.month /\ self.day > st.day)

Date_is_since(self, st) ==
    \/ self.year > st.year
    \/ /\ self.year = st.year
       /\ \/ self.month > st.month
          \/ (self.month = st.month /\ self.day >= st.day)

Date_is_before(self, end) == ~Date_is_since(self, end)

(* #[derive(PartialOrd, Ord)]: fields compared in declaration order. *)
Date_cmp(a, b) ==
    IF a.year # b.year THEN (IF a.year < b.year THEN "Less" ELSE "Greater")
    ELSE IF a.month # b.month
        THEN (IF a.month < b.month THEN "Less" ELSE "Greater")
    ELSE IF a.day # b.day THEN (IF a.day < b.day THEN "Less" ELSE "Greater")
    ELSE "Equal"

-----------------------------------------------------------------------------
(* src/src/version.rs: comparisons *)

check_major_version(major) ==
    IF has_const_panic /\ major # 1 THEN "Major version must be 1.*"
    ELSE NoPanic

StableVersionSpec_minor(major, minor) ==
    IF check_major_version(major) # NoPanic
    THEN Panicked(check_major_version(major))
    ELSE Returned(StableVersionSpec(major, minor, None))

StableVersionSpec_patch(major, minor, patch) ==
    IF check_major_version(major) # NoPanic
    THEN Panicked(check_major_version(major))
    ELSE Returned(StableVersionSpec(major, minor, Some(patch)))

RustVersion_stable(major, minor, patch) ==
    IF check_major_version(major) # NoPanic
    THEN Panicked(check_major_version(major))
    ELSE Returned(RustVersion(major, minor, patch, Stable))

to_version(self) ==
    RustVersion_stable(self.major, self.minor,
                       IF self.patch.some THEN self.patch.val ELSE 0)

(* is_since_stable that compares the patch although the minor is newer. *)
is_since_stable_patch_always(self, sp) ==
    \/ self.major > sp.major
    \/ /\ self.major = sp.major
       /\ self.minor >= sp.minor
       /\ IF sp.patch.some THEN self.patch >= sp.patch.val ELSE TRUE

is_since_stable(self, sp) ==
    \/ self.major > sp.major
    \/ /\ self.major = sp.major
       /\ \/ self.minor > sp.minor
          \/ /\ self.minor = sp.minor
             /\ IF sp.patch.some THEN self.patch >= sp.patch.val ELSE TRUE

is_before_stable(self, sp) == ~is_since_stable(self, sp)

is_since_minor_version(self, major, minor) ==
    LET s == StableVersionSpec_minor(major, minor)
    IN  IF s.panic # NoPanic THEN Panicked(s.panic)
        ELSE Returned(is_since_stable(self, s.val))

is_since_patch_version(self, major, minor, patch) ==
    LET s == StableVersionSpec_patch(major, minor, patch)
    IN  IF s.panic # NoPanic THEN Panicked(s.panic)
        ELSE Returned(is_since_stable(self, s.val))

is_before_minor_version(self, major, minor) ==
    LET s == StableVersionSpec_minor(major, minor)
    IN  IF s.panic # NoPanic THEN Panicked(s.panic)
        ELSE Returned(is_before_stable(self, s.val))

(* is_before_patch_version that builds a minor spec and drops the patch. *)
is_before_patch_version_drops_patch(self, major, minor, patch) ==
    LET s == StableVersionSpec_minor(major, minor)
    IN  IF s.panic # NoPanic THEN Panicked(s.panic)
        ELSE Returned(is_before_stable(self, s.val))

is_before_patch_version(self, major, minor, patch) ==
    LET s == StableVersionSpec_patch(major, minor, patch)
    IN  IF s.panic # NoPanic THEN Panicked(s.panic)
        ELSE Returned(is_before_stable(self, s.val))

is_since(self, sp) == is_since_stable(self, sp)

is_before(self, sp) == is_before_stable(self, sp)

is_since_nightly(self, st) ==
    CASE self.channel.kind = "Nightly" -> Date_is_since(self.channel.date, st)
      [] self.channel.kind \in {"Stable", "Beta"} -> FALSE
      [] self.channel.kind = "Dev" -> TRUE

(* is_before_nightly written as the negation of is_since_nightly. *)
is_before_nightly_negation(self, st) == ~is_since_nightly(self, st)

is_before_nightly(self, st) ==
    CASE self.channel.kind = "Nightly" -> Date_is_before(self.channel.date, st)
      [] self.channel.kind \in {"Stable", "Beta"} -> FALSE
      [] self.channel.kind = "Dev" -> TRUE

-----------------------------------------------------------------------------
(* Text: a str is a sequence of one-character strings. *)

Digits == <<"0", "1", "2", "3", "4", "5", "6", "7", "8", "9">>

IsDigit(c) == \E i \in 1 .. 10 : Digits[i] = c

DigitVal(c) == (CHOOSE i \in 1 .. 10 : Digits[i] = c) - 1

(* The largest values of the integer types, in decimal. *)
U8Max == <<"2", "5", "5">>
U16Max == <<"6", "5", "5", "3", "5">>
U32Max == <<"4", "2", "9", "4", "9", "6", "7", "2", "9", "5">>

RECURSIVE StripZeros(_)
(* A digit string without its leading zeros. *)
StripZeros(s) ==
    IF Len(s) > 0 /\ s[1] = "0" THEN StripZeros(Tail(s)) ELSE s

(* Whether the number written by the digits s exceeds the one written by   *)
(* max: the overflow that checked_mul / checked_add report.                *)
Overflows(s, max) ==
    LET t == StripZeros(s)
    IN  \/ Len(t) > Len(max)
        \/ /\ Len(t) = Len(max)
           /\ \E i \in 1 .. Len(t) :
                 /\ \A j \in 1 .. i - 1 : t[j] = max[j]
                 /\ DigitVal(t[i]) > DigitVal(max[i])

RECURSIVE DigitsValue(_, _)
(* The number written by the digits s, after the digits read so far. *)
DigitsValue(s, acc) ==
    IF Len(s) = 0 THEN acc
    ELSE DigitsValue(Tail(s), acc * 10 + DigitVal(s[1]))

ParseOk(n) == [ok |-> TRUE, val |-> n]
ParseErr == [ok |-> FALSE, val |-> 0]

(* str::parse for an unsigned integer type whose largest value is max:     *)
(* an optional '+', then one or more decimal digits, no overflow.          *)
ParseUInt(s, max) ==
    LET digits == IF Len(s) > 0 /\ s[1] = "+" THEN Tail(s) ELSE s
    IN  IF Len(s) = 0 THEN ParseErr
        ELSE IF Len(digits) = 0 THEN ParseErr
        ELSE IF \E i \in 1 .. Len(digits) : ~IsDigit(digits[i]) THEN ParseErr
        ELSE IF Overflows(digits, max) THEN ParseErr
        ELSE ParseOk(DigitsValue(StripZeros(digits), 0))

RECURSIVE UIntToString(_)
(* Display of an unsigned integer: decimal, no sign, no leading zeros. *)
UIntToString(n) ==
    IF n < 10 THEN <<Digits[n + 1]>>
    ELSE UIntToString(n \div 10) \o <<Digits[(n % 10) + 1]>>

RECURSIVE Split(_, _)
(* str::split(c): the pieces between the occurrences of c, at least one. *)
Split(s, c) ==
    IF \A i \in 1 .. Len(s) : s[i] # c THEN <<s>>
    ELSE LET i == CHOOSE k \in 1 .. Len(s) :
                     s[k] = c /\ \A j \in 1 .. k - 1 : s[j] # c
         IN  <<SubSeq(s, 1, i - 1)>> \o Split(SubSeq(s, i + 1, Len(s)), c)

StartsWith(s, p) == Len(s) >= Len(p) /\ SubSeq(s, 1, Len(p)) = p

EndsWith(s, p) ==
    Len(s) >= Len(p) /\ SubSeq(s, Len(s) - Len(p) + 1, Len(s)) = p

-----------------------------------------------------------------------------
(* src/src/version.rs: the text format of StableVersionSpec *)

Ok(v) == [ok |-> TRUE, err |-> "", val |-> v]
Err(e) == [ok |-> FALSE, err |-> e, val |-> StableVersionSpec(0, 0, None)]

(* Display that always writes a patch, 0 when there is none. *)
StableVersionSpec_fmt_always_patch(self) ==
    UIntToString(self.major) \o <<".">> \o UIntToString(self.minor)
        \o <<".">> \o UIntToString(IF self.patch.some THEN self.patch.val ELSE 0)

StableVersionSpec_fmt(self) ==
    UIntToString(self.major) \o <<".">> \o UIntToString(self.minor)
        \o (IF self.patch.some
            THEN <<".">> \o UIntToString(self.patch.val)
            ELSE <<>>)

(* from_str that counts the components before it parses any of them. *)
from_str_count_first(s) ==
    LET parts == Split(s, ".")
        major == ParseUInt(parts[1], U32Max)
        minor == ParseUInt(parts[2], U32Max)
        patch == ParseUInt(parts[3], U32Max)
    IN  IF Len(parts) < 2 \/ Len(parts) > 3 THEN Err("BadNumberParts")
        ELSE IF ~major.ok THEN Err("InvalidNumber")
        ELSE IF ~minor.ok THEN Err("InvalidNumber")
        ELSE IF Len(parts) >= 3 /\ ~patch.ok THEN Err("InvalidNumber")
        ELSE IF major.val # 1 THEN Err("InvalidMajorVersion")
        ELSE Ok(StableVersionSpec(major.val, minor.val,
                    IF Len(parts) >= 3 THEN Some(patch.val) ELSE None))

(* from_str that parses every component, the fourth and later ones too. *)
from_str_parse_all(s) ==
    LET parts == Split(s, ".")
        major == ParseUInt(parts[1], U32Max)
        minor == ParseUInt(parts[2], U32Max)
        patch == ParseUInt(parts[3], U32Max)
    IN  IF \E i \in 1 .. Len(parts) : ~ParseUInt(parts[i], U32Max).ok
            THEN Err("InvalidNumber")
        ELSE IF Len(parts) < 2 \/ Len(parts) >= 4 THEN Err("BadNumberParts")
        ELSE IF major.val # 1 THEN Err("InvalidMajorVersion")
        ELSE Ok(StableVersionSpec(major.val, minor.val,
                    IF Len(parts) >= 3 THEN Some(patch.val) ELSE None))

from_str(s) ==
    LET parts == Split(s, ".")
        major == ParseUInt(parts[1], U32Max)
        minor == ParseUInt(parts[2], U32Max)
        patch == ParseUInt(parts[3], U32Max)
    IN  IF ~major.ok THEN Err("InvalidNumber")
        ELSE IF Len(parts) < 2 THEN Err("BadNumberParts")
        ELSE IF ~minor.ok THEN Err("InvalidNumber")
        ELSE IF Len(parts) >= 3 /\ ~patch.ok THEN Err("InvalidNumber")
        ELSE IF Len(parts) >= 4 THEN Err("BadNumberParts")
        ELSE IF major.val # 1 THEN Err("InvalidMajorVersion")
        ELSE Ok(StableVersionSpec(major.val, minor.val,
                    IF Len(parts) >= 3 THEN Some(patch.val) ELSE None))

-----------------------------------------------------------------------------
(* src/build/rustc.rs: the parser of the output of `rustc --version` *)

Whitespace == {" ", "\t", "\n", "\r"}

RECURSIVE TrimStart(_)
TrimStart(s) ==
    IF Len(s) > 0 /\ s[1] \in Whitespace THEN TrimStart(Tail(s)) ELSE s

RECURSIVE TrimEnd(_)
TrimEnd(s) ==
    IF Len(s) > 0 /\ s[Len(s)] \in Whitespace
    THEN TrimEnd(SubSeq(s, 1, Len(s) - 1))
    ELSE s

(* str::trim *)
Trim(s) == TrimEnd(TrimStart(s))

RECURSIVE SplitInclusive(_)
(* str::split_inclusive('\n'): the pieces, each with its '\n'; no piece    *)
(* after a final '\n'.                                                     *)
SplitInclusive(s) ==
    IF Len(s) = 0 THEN <<>>
    ELSE IF \A i \in 1 .. Len(s) : s[i] # "\n" THEN <<s>>
    ELSE LET i == CHOOSE k \in 1 .. Len(s) :
                     s[k] = "\n" /\ \A j \in 1 .. k - 1 : s[j] # "\n"
         IN  <<SubSeq(s, 1, i)>> \o SplitInclusive(SubSeq(s, i + 1, Len(s)))

(* A line without its terminator, "\n" or "\r\n". *)
StripLineEnd(piece) ==
    IF ~EndsWith(piece, <<"\n">>) THEN piece
    ELSE LET l == SubSeq(piece, 1, Len(piece) - 1)
         IN  IF EndsWith(l, <<"\r">>) THEN SubSeq(l, 1, Len(l) - 1) ELSE l

(* str::lines with every '\n' starting another line, a final one too. *)
Lines_final_newline_starts_line(s) ==
    LET pieces == Split(s, "\n")
    IN  [i \in 1 .. Len(pieces) |->
            IF EndsWith(pieces[i], <<"\r">>)
            THEN SubSeq(pieces[i], 1, Len(pieces[i]) - 1)
            ELSE pieces[i]]

(* str::lines *)
Lines(s) ==
    LET pieces == SplitInclusive(s)
    IN  [i \in 1 .. Len(pieces) |-> StripLineEnd(pieces[i])]

Success(v) == [tag |-> "Success", version |-> v]
OopsClippy == [tag |-> "OopsClippy", version |-> RustVersion(0, 0, 0, Stable)]
Unrecognized ==
    [tag |-> "Unrecognized", version |-> RustVersion(0, 0, 0, Stable)]

NoVersion == [some |-> FALSE, val |-> RustVersion(0, 0, 0, Stable)]
SomeVersion(v) == [some |-> TRUE, val |-> v]

NoChannel == [some |-> FALSE, val |-> Stable]
SomeChannel(c) == [some |-> TRUE, val |-> c]

(* The nightly date token: "YYYY-MM-DD)" (rustc.rs:68-77). *)
parse_date(tok) ==
    LET parts == Split(SubSeq(tok, 1, Len(tok) - 1), "-")
        year == ParseUInt(parts[1], U16Max)
        month == ParseUInt(parts[2], U8Max)
        day == ParseUInt(parts[3], U8Max)
    IN  IF ~year.ok THEN NoChannel
        ELSE IF Len(parts) < 2 THEN NoChannel
        ELSE IF ~month.ok THEN NoChannel
        ELSE IF Len(parts) < 3 THEN NoChannel
        ELSE IF ~day.ok THEN NoChannel
        ELSE IF Len(parts) > 3 THEN NoChannel
        ELSE SomeChannel(Nightly(Date(year.val, month.val, day.val)))

(* parse_channel with the arm of line 64 matching the word "beta" only. *)
parse_channel_beta_exact(vc, words) ==
    IF Len(vc) < 2 THEN SomeChannel(Stable)
    ELSE IF vc[2] = <<"d", "e", "v">> THEN SomeChannel(Dev)
    ELSE IF vc[2] = <<"b", "e", "t", "a">> THEN SomeChannel(Beta)
    ELSE IF vc[2] = <<"n", "i", "g", "h", "t", "l", "y">>
        THEN IF Len(words) = 0 THEN SomeChannel(Dev)
             ELSE IF ~StartsWith(words[1], <<"(">>) THEN NoChannel
             ELSE IF Len(words) = 1
                 THEN (IF EndsWith(words[1], <<")">>)
                       THEN SomeChannel(Dev) ELSE NoChannel)
             ELSE IF EndsWith(words[2], <<")">>) THEN parse_date(words[2])
             ELSE NoChannel
    ELSE NoChannel

(* parse_channel with "nightly" and no further word giving no channel. *)
parse_channel_nightly_needs_hash(vc, words) ==
    IF Len(vc) < 2 THEN SomeChannel(Stable)
    ELSE IF vc[2] = <<"d", "e", "v">> THEN SomeChannel(Dev)
    ELSE IF StartsWith(vc[2], <<"b", "e", "t", "a">>) THEN SomeChannel(Beta)
    ELSE IF vc[2] = <<"n", "i", "g", "h", "t", "l", "y">>
        THEN IF Len(words) = 0 THEN NoChannel
             ELSE IF ~StartsWith(words[1], <<"(">>) THEN NoChannel
             ELSE IF Len(words) = 1
                 THEN (IF EndsWith(words[1], <<")">>)
                       THEN SomeChannel(Dev) ELSE NoChannel)
             ELSE IF EndsWith(words[2], <<")">>) THEN parse_date(words[2])
             ELSE NoChannel
    ELSE NoChannel

(* The match on the channel keyword (rustc.rs:61-84); words are the        *)
(* tokens that follow the version token.                                   *)
parse_channel(vc, words) ==
    IF Len(vc) < 2 THEN SomeChannel(Stable)
    ELSE IF vc[2] = <<"d", "e", "v">> THEN SomeChannel(Dev)
    ELSE IF StartsWith(vc[2], <<"b", "e", "t", "a">>) THEN SomeChannel(Beta)
    ELSE IF vc[2] = <<"n", "i", "g", "h", "t", "l", "y">>
        THEN IF Len(words) = 0 THEN SomeChannel(Dev)
             ELSE IF ~StartsWith(words[1], <<"(">>) THEN NoChannel
             ELSE IF Len(words) = 1
                 THEN (IF EndsWith(words[1], <<")">>)
                       THEN SomeChannel(Dev) ELSE NoChannel)
             ELSE IF EndsWith(words[2], <<")">>) THEN parse_date(words[2])
             ELSE NoChannel
    ELSE NoChannel

(* parse_words refusing a component after the patch. *)
parse_words_three_components(words) ==
    IF Len(words) = 0 THEN NoVersion
    ELSE
    LET vc == Split(words[1], "-")
        digits == Split(vc[1], ".")
        major == ParseUInt(digits[1], U16Max)
        minor == ParseUInt(digits[2], U16Max)
        patch == IF Len(digits) >= 3 THEN ParseUInt(digits[3], U16Max)
                 ELSE ParseUInt(<<"0">>, U16Max)
        channel == parse_channel(vc, Tail(words))
    IN  IF ~major.ok THEN NoVersion
        ELSE IF Len(digits) < 2 THEN NoVersion
        ELSE IF ~minor.ok THEN NoVersion
        ELSE IF ~patch.ok THEN NoVersion
        ELSE IF Len(digits) > 3 THEN NoVersion
        ELSE IF ~channel.some THEN NoVersion
        ELSE SomeVersion(
                 RustVersion(major.val, minor.val, patch.val, channel.val))

(* parse_words: words are the tokens after the first one of the line. *)
parse_words(words) ==
    IF Len(words) = 0 THEN NoVersion
    ELSE
    LET vc == Split(words[1], "-")
        digits == Split(vc[1], ".")
        major == ParseUInt(digits[1], U16Max)
        minor == ParseUInt(digits[2], U16Max)
        patch == IF Len(digits) >= 3 THEN ParseUInt(digits[3], U16Max)
                 ELSE ParseUInt(<<"0">>, U16Max)
        channel == parse_channel(vc, Tail(words))
    IN  IF ~major.ok THEN NoVersion
        ELSE IF Len(digits) < 2 THEN NoVersion
        ELSE IF ~minor.ok THEN NoVersion
        ELSE IF ~patch.ok THEN NoVersion
        ELSE IF ~channel.some THEN NoVersion
        ELSE SomeVersion(
                 RustVersion(major.val, minor.val, patch.val, channel.val))

(* last_line taking the first of lines(). *)
last_line_first(string) ==
    IF Len(Lines(string)) = 0 THEN string
    ELSE Lines(string)[1]

(* The line parse looks at: the last of lines(), the whole string when     *)
(* there is none.                                                          *)
last_line(string) ==
    IF Len(Lines(string)) = 0 THEN string
    ELSE Lines(string)[Len(Lines(string))]

(* parse_line with the arm of line 44 matching the word "clippy" only. *)
parse_line_clippy_exact(line) ==
    LET words == Split(Trim(line), " ")
    IN  IF words[1] = <<"r", "u", "s", "t", "c">>
        THEN (IF parse_words(Tail(words)).some
              THEN Success(parse_words(Tail(words)).val)
              ELSE Unrecognized)
        ELSE IF words[1] = <<"c", "l", "i", "p", "p", "y">>
            THEN OopsClippy
        ELSE Unrecognized

(* What parse makes of the tokens of the chosen line (rustc.rs:40-48). *)
parse_line(line) ==
    LET words == Split(Trim(line), " ")
    IN  IF words[1] = <<"r", "u", "s", "t", "c">>
        THEN (IF parse_words(Tail(words)).some
              THEN Success(parse_words(Tail(words)).val)
              ELSE Unrecognized)
        ELSE IF StartsWith(words[1], <<"c", "l", "i", "p", "p", "y">>)
            THEN OopsClippy
        ELSE Unrecognized

parse(string) == parse_line(last_line(string))

-----------------------------------------------------------------------------
(* The values the harnesses draw from. *)

Years == 0 .. MaxYear
Months == {0, 1, MonthMax, MonthMax + 1}
Days == {0, 1, DayMax, DayMax + 1}

AnyDates == {Date(y, m, d) : y \in Years, m \in Months, d \in Days}

ValidDates ==
    {d \in AnyDates : /\ d.year >= 1
                      /\ d.month >= 1 /\ d.month <= MonthMax
                      /\ d.day >= 1 /\ d.day <= DayMax}

Channels == {Stable, Beta, Dev} \cup {Nightly(d) : d \in ValidDates}

Majors == 1 .. MaxMajor
Minors == 0 .. MaxMinor
Patches == 0 .. MaxPatch

Versions ==
    {RustVersion(ma, mi, pa, ch) :
        ma \in Majors, mi \in Minors, pa \in Patches, ch \in Channels}

OptPatches == {None} \cup {Some(p) : p \in Patches}

Specs ==
    {StableVersionSpec(ma, mi, pa) :
        ma \in Majors, mi \in Minors, pa \in OptPatches}

NoCall == [op |-> "none", args |-> <<>>, panic |-> NoPanic, ret |-> FALSE]

Called(op, args, r) ==
    [op |-> op, args |-> args, panic |-> r.panic, ret |-> r.val]

IdleVersion == RustVersion(1, 0, 0, Stable)
IdleSpec == StableVersionSpec(1, 0, None)

(* format!("{:#?}\n", version) (build.rs:102): the Debug text of the       *)
(* Version of the build script, as the expression it spells: a struct      *)
(* expression Version { .. } whose channel is a path (Stable, Beta, Dev)   *)
(* or a call Nightly(Date { .. }).                                         *)
debug_fmt(v) ==
    [struct |-> "Version",
     major |-> v.major,
     minor |-> v.minor,
     patch |-> v.patch,
     channel |->
         [path |-> v.channel.kind,
          args |-> IF v.channel.kind = "Nightly"
                   THEN <<[struct |-> "Date",
                           year |-> v.channel.date.year,
                           month |-> v.channel.date.month,
                           day |-> v.channel.date.day]>>
                   ELSE <<>>]]

(* include!(.../version.expr) in mod detected (lib.rs:32-42): Version is   *)
(* RustVersion, the channels are those of crate::version::Channel and      *)
(* Date { .. } is a struct expression of crate::date::Date, not a call of  *)
(* Date::new.                                                              *)
include_expr(e) ==
    RustVersion(e.major, e.minor, e.patch,
                IF e.channel.path = "Nightly"
                THEN Nightly(Date(e.channel.args[1].year,
                                  e.channel.args[1].month,
                                  e.channel.args[1].day))
                ELSE Channel(e.channel.path, ZeroDate))

(* The build script before main runs: no command run, nothing printed,     *)
(* no file.                                                                *)
NoFile ==
    [written |-> FALSE, contents |-> debug_fmt(RustVersion(0, 0, 0, Stable))]

BuildIdle ==
    /\ is_clippy_driver = FALSE
    /\ commands = <<>>
    /\ version = RustVersion(0, 0, 0, Stable)
    /\ cfgs = {}
    /\ version_expr = NoFile

-----------------------------------------------------------------------------
(* SpecDate: Date::new, Date::is_since, Date::is_before. *)

InitDate ==
    /\ has_const_panic \in BOOLEAN
    /\ date \in AnyDates
    /\ start \in AnyDates
    /\ rv = IdleVersion
    /\ spec = IdleSpec
    /\ text = <<>>
    /\ call = NoCall
    /\ BuildIdle
    /\ pc = "date"

CallDateNew ==
    /\ pc = "date"
    /\ \E y \in Years, m \in Months, d \in Days :
          call' = Called("Date::new", <<y, m, d>>, Date_new(y, m, d))
    /\ pc' = "done"
    /\ UNCHANGED build_vars
    /\ UNCHANGED <<has_const_panic, date, start, rv, spec, text>>

CallDateIsSince ==
    /\ pc = "date"
    /\ call' = Called("Date::is_since", <<date, start>>,
                      Returned(Date_is_since(date, start)))
    /\ pc' = "done"
    /\ UNCHANGED build_vars
    /\ UNCHANGED <<has_const_panic, date, start, rv, spec, text>>

CallDateIsBefore ==
    /\ pc = "date"
    /\ call' = Called("Date::is_before", <<date, start>>,
                      Returned(Date_is_before(date, start)))
    /\ pc' = "done"
    /\ UNCHANGED build_vars
    /\ UNCHANGED <<has_const_panic, date, start, rv, spec, text>>

NextDate == CallDateNew \/ CallDateIsSince \/ CallDateIsBefore

SpecDate == InitDate /\ [][NextDate]_vars

-----------------------------------------------------------------------------
(* The spec a version is compared as (version.rs:497-502). *)
to_spec(self) == StableVersionSpec_patch(self.major, self.minor, self.patch)

(* SpecVersion: the queries of RustVersion. *)

InitVersion ==
    /\ has_const_panic \in BOOLEAN
    /\ date = ZeroDate
    /\ start = ZeroDate
    /\ rv \in Versions
    /\ spec = IdleSpec
    /\ text = <<>>
    /\ call = NoCall
    /\ BuildIdle
    /\ pc = "version"

VersionDone ==
    /\ pc' = "done"
    /\ UNCHANGED build_vars
    /\ UNCHANGED <<has_const_panic, date, start, rv, spec, text>>

CallIsSinceStable ==
    /\ pc = "version"
    /\ \E s \in Specs :
          call' = Called("is_since_stable", <<s>>,
                         Returned(is_since_stable(rv, s)))
    /\ VersionDone

CallIsBeforeStable ==
    /\ pc = "version"
    /\ \E s \in Specs :
          call' = Called("is_before_stable", <<s>>,
                         Returned(is_before_stable(rv, s)))
    /\ VersionDone

CallIsSinceMinorVersion ==
    /\ pc = "version"
    /\ \E ma \in Majors, mi \in Minors :
          call' = Called("is_since_minor_version", <<ma, mi>>,
                         is_since_minor_version(rv, ma, mi))
    /\ VersionDone

CallIsSincePatchVersion ==
    /\ pc = "version"
    /\ \E ma \in Majors, mi \in Minors, pa \in Patches :
          call' = Called("is_since_patch_version", <<ma, mi, pa>>,
                         is_since_patch_version(rv, ma, mi, pa))
    /\ VersionDone

CallIsBeforeMinorVersion ==
    /\ pc = "version"
    /\ \E ma \in Majors, mi \in Minors :
          call' = Called("is_before_minor_version", <<ma, mi>>,
                         is_before_minor_version(rv, ma, mi))
    /\ VersionDone

CallIsBeforePatchVersion ==
    /\ pc = "version"
    /\ \E ma \in Majors, mi \in Minors, pa \in Patches :
          call' = Called("is_before_patch_version", <<ma, mi, pa>>,
                         is_before_patch_version(rv, ma, mi, pa))
    /\ VersionDone

CallIsSince ==
    /\ pc = "version"
    /\ \E s \in Specs :
          call' = Called("is_since", <<s>>, Returned(is_since(rv, s)))
    /\ VersionDone

CallIsBefore ==
    /\ pc = "version"
    /\ \E s \in Specs :
          call' = Called("is_before", <<s>>, Returned(is_before(rv, s)))
    /\ VersionDone

CallIsSinceNightly ==
    /\ pc = "version"
    /\ \E d \in ValidDates :
          call' = Called("is_since_nightly", <<d>>,
                         Returned(is_since_nightly(rv, d)))
    /\ VersionDone

CallIsBeforeNightly ==
    /\ pc = "version"
    /\ \E d \in ValidDates :
          call' = Called("is_before_nightly", <<d>>,
                         Returned(is_before_nightly(rv, d)))
    /\ VersionDone

NextVersion ==
    \/ CallIsSinceStable
    \/ CallIsBeforeStable
    \/ CallIsSinceMinorVersion
    \/ CallIsSincePatchVersion
    \/ CallIsBeforeMinorVersion
    \/ CallIsBeforePatchVersion
    \/ CallIsSince
    \/ CallIsBefore
    \/ CallIsSinceNightly
    \/ CallIsBeforeNightly

SpecVersion == InitVersion /\ [][NextVersion]_vars

-----------------------------------------------------------------------------
(* Properties of the version queries. *)

(* The same version on another channel. *)
OnChannel(v, ch) == [v EXCEPT !.channel = ch]

(* The same channel carried by other version numbers. *)
WithNumbers(v, ma, mi, pa) ==
    [v EXCEPT !.major = ma, !.minor = mi, !.patch = pa]

(* a >= b in the derived order of Date. *)
DateGe(a, b) == Date_cmp(a, b) \in {"Greater", "Equal"}

(* a < b in the derived order of Date. *)
DateLt(a, b) == Date_cmp(a, b) = "Less"

(* C1: v.is_since_stable(s) is true iff v.major > s.major, or the majors   *)
(* are equal and (v.minor > s.minor, or the minors are equal and (s.patch  *)
(* is absent or v.patch >= s.patch)); the answer is the same for the       *)
(* version on every other channel.                                         *)
C1_IsSinceStable ==
    call.op = "is_since_stable" =>
        LET s == call.args[1]
        IN  /\ call.panic = NoPanic
            /\ call.ret <=>
                  \/ rv.major > s.major
                  \/ /\ rv.major = s.major
                     /\ \/ rv.minor > s.minor
                        \/ /\ rv.minor = s.minor
                           /\ (~s.patch.some \/ rv.patch >= s.patch.val)
            /\ \A ch \in Channels :
                  is_since_stable(OnChannel(rv, ch), s) = call.ret

(* A nightly version with a newer minor and an older patch than the spec. *)
C1_Witness ==
    /\ call.op = "is_since_stable"
    /\ rv.channel.kind = "Nightly"
    /\ rv.major = call.args[1].major
    /\ rv.minor > call.args[1].minor
    /\ call.args[1].patch.some
    /\ rv.patch < call.args[1].patch.val
    /\ call.ret = TRUE

C3_BeforeNightlyIsNegation ==
    call.op = "is_before_nightly" =>
        call.ret = ~is_since_nightly(rv, call.args[1])

(* C4: is_before_stable is the negation of is_since_stable; for major 1    *)
(* the minor and patch wrappers return what is_since_stable returns for    *)
(* the spec they build, each is_before_* wrapper is the negation of its    *)
(* is_since_* wrapper, and is_since / is_before return what                *)
(* is_since_stable / is_before_stable return.                              *)
C4_NegationAndWrappers ==
    /\ call.op = "is_before_stable" =>
          /\ call.panic = NoPanic
          /\ call.ret = ~is_since_stable(rv, call.args[1])
    /\ (call.op = "is_since_minor_version" /\ call.args[1] = 1) =>
          /\ call.panic = NoPanic
          /\ call.ret = is_since_stable(
                 rv, StableVersionSpec(1, call.args[2], None))
    /\ (call.op = "is_since_patch_version" /\ call.args[1] = 1) =>
          /\ call.panic = NoPanic
          /\ call.ret = is_since_stable(
                 rv, StableVersionSpec(1, call.args[2], Some(call.args[3])))
    /\ (call.op = "is_before_minor_version" /\ call.args[1] = 1) =>
          /\ call.panic = NoPanic
          /\ call.ret = ~is_since_minor_version(rv, 1, call.args[2]).val
    /\ (call.op = "is_before_patch_version" /\ call.args[1] = 1) =>
          /\ call.panic = NoPanic
          /\ call.ret =
                 ~is_since_patch_version(rv, 1, call.args[2], call.args[3]).val
    /\ call.op = "is_since" =>
          /\ call.panic = NoPanic
          /\ call.ret = is_since_stable(rv, call.args[1])
    /\ call.op = "is_before" =>
          /\ call.panic = NoPanic
          /\ call.ret = is_before_stable(rv, call.args[1])

(* is_before_patch_version(1, m, p) answers yes for a version of minor m   *)
(* and an older patch, where the minor spec alone would match.             *)
C4_Witness ==
    /\ call.op = "is_before_patch_version"
    /\ has_const_panic
    /\ call.args[1] = 1
    /\ rv.major = 1
    /\ rv.minor = call.args[2]
    /\ rv.patch < call.args[3]
    /\ call.ret = TRUE

-----------------------------------------------------------------------------
(* Properties of Date. *)

(* The place of a date in the lexicographic order of (u16, u8, u8). *)
Ordinal(d) == d.year * 65536 + d.month * 256 + d.day

(* C5: a.is_since(b) iff (a.year, a.month, a.day) >= (b.year, b.month,     *)
(* b.day) lexicographically, the answer of the derived a >= b;             *)
(* a.is_before(b) iff a < b; so a date is since and not before itself.     *)
C5_DateOrder ==
    /\ call.op = "Date::is_since" =>
          /\ call.ret <=> Ordinal(date) >= Ordinal(start)
          /\ call.ret <=> DateGe(date, start)
          /\ call.ret = ~Date_is_before(date, start)
          /\ date = start => call.ret = TRUE
    /\ call.op = "Date::is_before" =>
          /\ call.ret <=> Ordinal(date) < Ordinal(start)
          /\ call.ret <=> DateLt(date, start)
          /\ call.ret = ~Date_is_since(date, start)
          /\ date = start => call.ret = FALSE
          /\ call.ret => Date_is_since(start, date)

(* A date is compared with itself. *)
C5_Witness ==
    /\ call.op = "Date::is_since"
    /\ date = start
    /\ date \in ValidDates
    /\ call.ret = TRUE

(* C6: with validation, Date::new panics exactly when year < 1, month is   *)
(* outside 1..12 or day is outside 1..31, naming the first bad field in    *)
(* the order year, month, day, and otherwise returns the three fields;     *)
(* without validation it always returns the three fields.                  *)
C6_DateNew ==
    call.op = "Date::new" =>
        LET y == call.args[1]
            m == call.args[2]
            d == call.args[3]
            badYear == y < 1
            badMonth == m < 1 \/ m > 12
            badDay == d < 1 \/ d > 31
        IN  IF has_const_panic
            THEN /\ (call.panic # NoPanic) <=> (badYear \/ badMonth \/ badDay)
                 /\ badYear => call.panic = "Invalid year"
                 /\ (~badYear /\ badMonth) => call.panic = "Invalid month"
                 /\ (~badYear /\ ~badMonth /\ badDay) =>
                        call.panic = "Invalid day of month"
                 /\ call.panic = NoPanic => call.ret = Date(y, m, d)
            ELSE /\ call.panic = NoPanic
                 /\ call.ret = Date(y, m, d)

(* With validation, a date whose year and month are both out of range is   *)
(* refused for its year.                                                   *)
C6_Witness ==
    /\ call.op = "Date::new"
    /\ has_const_panic
    /\ call.args[1] = 0
    /\ call.args[2] = 13
    /\ call.panic = "Invalid year"

-----------------------------------------------------------------------------
(* SpecFromStr: a StableVersionSpec is built and displayed, or a text is   *)
(* given, and the text is parsed.                                          *)

SpecNums == 0 .. MaxNum

(* The components the given texts are made of: valid numbers, the empty    *)
(* component, a word, and a number one above u32::MAX.                     *)
Components ==
    { <<"1">>, <<"2">>, <<>>, <<"x">>,
      <<"4", "2", "9", "4", "9", "6", "7", "2", "9", "6">> }

RECURSIVE JoinDots(_)
JoinDots(parts) ==
    IF Len(parts) = 1 THEN parts[1]
    ELSE parts[1] \o <<".">> \o JoinDots(Tail(parts))

InputTexts ==
    {JoinDots(p) : p \in UNION {[1 .. n -> Components] : n \in 1 .. MaxParts}}

InitFromStr ==
    /\ has_const_panic \in BOOLEAN
    /\ date = ZeroDate
    /\ start = ZeroDate
    /\ rv = IdleVersion
    /\ spec = IdleSpec
    /\ text = <<>>
    /\ call = NoCall
    /\ BuildIdle
    /\ pc = "spec"

Built(name, args, r) ==
    /\ call' = Called(name, args, r)
    /\ spec' = IF r.panic = NoPanic THEN r.val ELSE spec
    /\ pc' = IF r.panic = NoPanic THEN "built" ELSE "panicked"
    /\ UNCHANGED build_vars
    /\ UNCHANGED <<has_const_panic, date, start, rv, text>>

CallSpecMinor ==
    /\ pc = "spec"
    /\ \E ma \in Majors, mi \in SpecNums :
          Built("StableVersionSpec::minor", <<ma, mi>>,
                StableVersionSpec_minor(ma, mi))

CallSpecPatch ==
    /\ pc = "spec"
    /\ \E ma \in Majors, mi \in SpecNums, pa \in SpecNums :
          Built("StableVersionSpec::patch", <<ma, mi, pa>>,
                StableVersionSpec_patch(ma, mi, pa))

CallSpecToString ==
    /\ pc = "built"
    /\ text' = StableVersionSpec_fmt(spec)
    /\ call' = Called("to_string", <<spec>>, Returned(text'))
    /\ pc' = "shown"
    /\ UNCHANGED build_vars
    /\ UNCHANGED <<has_const_panic, date, start, rv, spec>>

GiveText ==
    /\ pc = "spec"
    /\ \E t \in InputTexts : text' = t
    /\ pc' = "given"
    /\ UNCHANGED build_vars
    /\ UNCHANGED <<has_const_panic, date, start, rv, spec, call>>

CallFromStr ==
    /\ pc \in {"shown", "given"}
    /\ call' = Called("from_str", <<text>>, Returned(from_str(text)))
    /\ pc' = IF pc = "shown" THEN "roundtrip" ELSE "parsed"
    /\ UNCHANGED build_vars
    /\ UNCHANGED <<has_const_panic, date, start, rv, spec, text>>

NextFromStr ==
    \/ CallSpecMinor
    \/ CallSpecPatch
    \/ CallSpecToString
    \/ GiveText
    \/ CallFromStr

SpecFromStr == InitFromStr /\ [][NextFromStr]_vars

-----------------------------------------------------------------------------
(* Properties of the text format of StableVersionSpec. *)

(* The number of components of a text split on '.'. *)
NumParts(t) == 1 + Cardinality({i \in 1 .. Len(t) : t[i] = "."})

(* The i-th component of a text split on '.'. *)
Part(t, i) == Split(t, ".")[i]

(* Whether a component is a valid unsigned 32-bit integer. *)
IsU32(c) == ParseUInt(c, U32Max).ok

Min(a, b) == IF a < b THEN a ELSE b

(* C7 as stated: parsing what Display writes for any spec, with or         *)
(* without a patch, succeeds and yields that spec.                         *)
C7_RoundTrip ==
    pc = "roundtrip" =>
        /\ call.ret.ok
        /\ call.ret.val = spec

(* C7 amended: parsing what Display writes for a spec of major 1, with or  *)
(* without a patch, succeeds and yields that spec, the patch absent        *)
(* exactly when the spec has none; for a spec of another major it fails    *)
(* with InvalidMajorVersion.                                               *)
C7_RoundTripMajorOne ==
    pc = "roundtrip" =>
        IF spec.major = 1
        THEN /\ call.ret.ok
             /\ call.ret.val = spec
             /\ call.ret.val.patch.some <=> spec.patch.some
        ELSE /\ ~call.ret.ok
             /\ call.ret.err = "InvalidMajorVersion"

(* A spec with a two-digit minor and no patch comes back from its text. *)
C7_Witness ==
    /\ pc = "roundtrip"
    /\ spec.major = 1
    /\ spec.minor >= 10
    /\ ~spec.patch.some
    /\ Len(text) = 4
    /\ call.ret.ok

(* C8 as stated: a text of fewer than 2 or more than 3 components fails    *)
(* with BadNumberParts, whatever the components contain.                   *)
C8_BadNumberParts ==
    (call.op = "from_str" /\ (NumParts(text) < 2 \/ NumParts(text) > 3)) =>
        /\ ~call.ret.ok
        /\ call.ret.err = "BadNumberParts"

(* C8 amended: a text of fewer than 2 or more than 3 components fails      *)
(* with BadNumberParts when each of its first three components (its only   *)
(* one, when it has one) is a valid integer, whatever the major and the    *)
(* later components are; when one of them is not, it fails with            *)
(* InvalidNumber.                                                          *)
C8_BadNumberPartsOfValid ==
    (call.op = "from_str" /\ (NumParts(text) < 2 \/ NumParts(text) > 3)) =>
        /\ ~call.ret.ok
        /\ call.ret.err =
              IF \A i \in 1 .. Min(NumParts(text), 3) : IsU32(Part(text, i))
              THEN "BadNumberParts"
              ELSE "InvalidNumber"

(* A four-component text whose major is 2 and whose fourth component is    *)
(* no number fails with BadNumberParts.                                    *)
C8_Witness ==
    /\ call.op = "from_str"
    /\ NumParts(text) = 4
    /\ Part(text, 1) = <<"2">>
    /\ ~IsU32(Part(text, 4))
    /\ call.ret.err = "BadNumberParts"

(* C9 as stated: a text with a component that is no valid u32 fails with   *)
(* InvalidNumber, wherever the component stands; a text of 2 or 3 valid    *)
(* components fails with InvalidMajorVersion iff its major is not 1.       *)
C9_InvalidNumber ==
    call.op = "from_str" =>
        /\ (\E i \in 1 .. NumParts(text) : ~IsU32(Part(text, i))) =>
              (~call.ret.ok /\ call.ret.err = "InvalidNumber")
        /\ ( /\ NumParts(text) \in {2, 3}
             /\ \A i \in 1 .. NumParts(text) : IsU32(Part(text, i)) ) =>
              (call.ret.err = "InvalidMajorVersion"
                   <=> ParseUInt(Part(text, 1), U32Max).val # 1)

(* C9 amended: a text one of whose first three components is no valid u32  *)
(* fails with InvalidNumber, whichever of the three it is and whatever     *)
(* the major is; a bad component in the fourth or a later place, after     *)
(* three valid ones, gives BadNumberParts; a text of 2 or 3 valid          *)
(* components fails with InvalidMajorVersion iff its major is not 1.       *)
C9_InvalidNumberInFirstThree ==
    call.op = "from_str" =>
        /\ (\E i \in 1 .. Min(NumParts(text), 3) : ~IsU32(Part(text, i))) =>
              (~call.ret.ok /\ call.ret.err = "InvalidNumber")
        /\ ( /\ NumParts(text) > 3
             /\ \A i \in 1 .. 3 : IsU32(Part(text, i)) ) =>
              (~call.ret.ok /\ call.ret.err = "BadNumberParts")
        /\ ( /\ NumParts(text) \in {2, 3}
             /\ \A i \in 1 .. NumParts(text) : IsU32(Part(text, i)) ) =>
              /\ call.ret.err = "InvalidMajorVersion"
                    <=> ParseUInt(Part(text, 1), U32Max).val # 1
              /\ call.ret.ok <=> ParseUInt(Part(text, 1), U32Max).val = 1

(* A text of major 2 whose third component overflows u32 fails with        *)
(* InvalidNumber.                                                          *)
C9_Witness ==
    /\ call.op = "from_str"
    /\ NumParts(text) = 3
    /\ Part(text, 1) = <<"2">>
    /\ IsU32(Part(text, 2))
    /\ Len(Part(text, 3)) = 10
    /\ call.ret.err = "InvalidNumber"

-----------------------------------------------------------------------------
(* SpecParse: the output of the command is given and parsed. *)

(* Lines of output: an empty line, a line of one space, a line of another  *)
(* program, the version lines of the three channels, one of them with      *)
(* space before it, and the banner of clippy.                              *)
EmptyLine ==
    <<>>

BlankLine ==
    <<" ">>

GarbageLine ==
    <<"g", "a", "r", "b", "a", "g", "e">>

StableLine ==
    <<"r", "u", "s", "t", "c", " ", "1", ".", "3", "2", ".", "0">>

BetaLine ==
    <<"r", "u", "s", "t", "c", " ", "1", ".", "6", "0", ".", "0", "-", "b",
      "e", "t", "a", ".", "2">>

ClippyLine ==
    <<"c", "l", "i", "p", "p", "y", " ", "0", ".", "1", ".", "8", "5", " ",
      "(", "a", "b", "c", " ", "2", "0", "2", "4", "-", "1", "2", "-", "0",
      "1", ")">>

NightlyLine ==
    <<" ", "r", "u", "s", "t", "c", " ", "1", ".", "8", "1", ".", "0", "-",
      "n", "i", "g", "h", "t", "l", "y", " ", "(", "6", " ", "2", "0", "2",
      "4", "-", "0", "7", "-", "2", "8", ")">>

OutputLines ==
    {EmptyLine, BlankLine, GarbageLine, StableLine, BetaLine, ClippyLine,
     NightlyLine}

LineEnds == { <<"\n">>, <<"\r", "\n">> }

RECURSIVE Concat(_)
Concat(ss) == IF Len(ss) = 0 THEN <<>> ELSE ss[1] \o Concat(Tail(ss))

(* The outputs: up to MaxLines lines, each ended by "\n" or "\r\n", the    *)
(* last one possibly not ended; and the empty output.                      *)
Outputs ==
    { <<>> } \cup
    UNION { { Concat([i \in 1 .. n |-> ls[i] \o es[i]]) :
                ls \in [1 .. n -> OutputLines],
                es \in {e \in [1 .. n -> LineEnds \cup { <<>> }] :
                           \A i \in 1 .. n - 1 : e[i] # <<>>} } :
            n \in 1 .. MaxLines }

(* Single lines, built token by token. *)

RECURSIVE Join(_, _)
Join(ss, sep) ==
    IF Len(ss) = 0 THEN <<>>
    ELSE IF Len(ss) = 1 THEN ss[1]
    ELSE ss[1] \o sep \o Join(Tail(ss), sep)

(* Lines that differ in their first token, in what follows it and in the   *)
(* whitespace around them.                                                 *)
FirstTokens ==
    {<<"r", "u", "s", "t", "c">>,
     <<"c", "l", "i", "p", "p", "y">>,
     <<"c", "l", "i", "p", "p", "y", "-", "d", "r", "i", "v", "e", "r">>,
     <<"r", "u", "s", "t", "c", "x">>,
     <<"R", "u", "s", "t", "c">>,
     <<"c", "a", "r", "g", "o">>}

Pads == { <<>>, <<" ">>, <<"\t">> }

Rests ==
    { <<>>,
      <<" ", "1", ".", "3", "2", ".", "0">>,
      <<" ", "1", ".", "8", "1", ".", "0", "-", "n", "i", "g", "h", "t", "l",
          "y", " ", "(", "6", " ", "2", "0", "2", "4", "-", "0", "7", "-",
          "2", "8", ")">>,
      <<" ", "x">>,
      <<"\t", "1", ".", "3", "2", ".", "0">> }

FirstTokenLines ==
    { <<>>, <<" ">> } \cup
    {lead \o first \o rest \o trail :
        lead \in Pads, first \in FirstTokens, rest \in Rests, trail \in Pads}

(* Lines "rustc VERSION[-CHANNEL[-MORE]][ TRAILER]". *)
MajorTokens == {<<"1">>, <<"2">>, <<"x">>}
MinorTokens == {<<"3", "2">>, <<"x">>, <<"6", "5", "5", "3", "6">>}
PatchTokens == {<<"0">>, <<"7">>, <<"x">>}
FourthTokens == {<<"9">>, <<"x">>}

VersionNumbers ==
    {<<"1">>} \cup
    {Join(<<ma, mi>>, <<".">>) : ma \in MajorTokens, mi \in MinorTokens} \cup
    {Join(<<ma, mi, pa>>, <<".">>) :
        ma \in MajorTokens, mi \in MinorTokens, pa \in PatchTokens} \cup
    {Join(<<ma, mi, pa, x>>, <<".">>) :
        ma \in MajorTokens, mi \in MinorTokens, pa \in PatchTokens,
        x \in FourthTokens}

ChannelKeywords ==
    {<<"d", "e", "v">>,
     <<"b", "e", "t", "a">>,
     <<"b", "e", "t", "a", ".", "2">>,
     <<"n", "i", "g", "h", "t", "l", "y">>,
     <<"s", "t", "a", "b", "l", "e">>,
     <<"d", "e", "v", "e", "l">>,
     <<"D", "e", "v">>,
     <<"n", "i", "g", "h", "t", "l", "y", "x">>,
     <<>>}

VersionTokens ==
    VersionNumbers \cup
    {Join(<<v, c>>, <<"-">>) : v \in VersionNumbers, c \in ChannelKeywords}
    \cup
    {Join(<<v, c, <<"x">>>>, <<"-">>) :
        v \in VersionNumbers, c \in ChannelKeywords}

Trailers ==
    { <<>>,
      <<" ", "x">>,
      <<" ", "(", "a", "b", "c", " ", "2", "0", "2", "4", "-", "0", "7", "-",
          "2", "8", ")">> }

VersionLines ==
    {<<"r", "u", "s", "t", "c",
        " ">> \o v \o t : v \in VersionTokens, t \in Trailers}

(* Lines "rustc 1.81.0-nightly" followed by up to MaxTail tokens. *)
TailTokens ==
    {<<"(", "6">>,
     <<"(", "6", ")">>,
     <<"6">>,
     <<"6", ")">>,
     <<"2", "0", "2", "4", "-", "0", "7", "-", "2", "8", ")">>,
     <<"2", "0", "2", "4", "-", "0", "7", "-", "2", "8">>,
     <<"2", "0", "2", "4", "-", "1", "3", "-", "4", "0", ")">>,
     <<"0", "-", "1", "-", "1", ")">>,
     <<"2", "0", "2", "4", "-", "0", "7", ")">>,
     <<"2", "0", "2", "4", "-", "0", "7", "-", "2", "8", "-", "1", ")">>,
     <<"2", "0", "2", "4", "-", "x", "-", "2", "8", ")">>}

NightlyLines ==
    {Join(<<<<"r", "u", "s", "t", "c">>, <<"1", ".", "8", "1", ".", "0", "-",
        "n", "i", "g", "h", "t", "l", "y">>>> \o tail, <<" ">>) :
        tail \in UNION {[1 .. n -> TailTokens] : n \in 0 .. MaxTail}}

InputLines == FirstTokenLines \cup VersionLines \cup NightlyLines

InitParse ==
    /\ has_const_panic = FALSE
    /\ date = ZeroDate
    /\ start = ZeroDate
    /\ rv = IdleVersion
    /\ spec = IdleSpec
    /\ text = <<>>
    /\ call = NoCall
    /\ BuildIdle
    /\ pc = "output"

GiveOutput ==
    /\ pc = "output"
    /\ \E t \in Outputs : text' = t
    /\ pc' = "given"
    /\ UNCHANGED build_vars
    /\ UNCHANGED <<has_const_panic, date, start, rv, spec, call>>

GiveLine ==
    /\ pc = "output"
    /\ \E t \in InputLines : text' = t
    /\ pc' = "given"
    /\ UNCHANGED build_vars
    /\ UNCHANGED <<has_const_panic, date, start, rv, spec, call>>

CallParse ==
    /\ pc = "given"
    /\ call' = Called("parse", <<text>>, Returned(parse(text)))
    /\ pc' = "parsed"
    /\ UNCHANGED build_vars
    /\ UNCHANGED <<has_const_panic, date, start, rv, spec, text>>

NextParse == GiveOutput \/ GiveLine \/ CallParse

SpecParse == InitParse /\ [][NextParse]_vars

-----------------------------------------------------------------------------
(* SpecOrder: versions compared with the specs of one another, as          *)
(* test_before_after does for its pairs.                                   *)

OrderChannels == {Stable, Beta, Dev, Nightly(Date(1, 1, 1))}

OrderVersions ==
    {RustVersion(ma, mi, pa, ch) :
        ma \in Majors, mi \in Minors, pa \in Patches, ch \in OrderChannels}

StableVersions ==
    {RustVersion(ma, mi, pa, Stable) :
        ma \in Majors, mi \in Minors, pa \in Patches}

InitOrder ==
    /\ has_const_panic \in BOOLEAN
    /\ date = ZeroDate
    /\ start = ZeroDate
    /\ rv \in OrderVersions
    /\ spec = IdleSpec
    /\ text = <<>>
    /\ call = NoCall
    /\ BuildIdle
    /\ pc = "order"

(* The comparisons of a (the receiver), b and c with the specs of one      *)
(* another; to_spec panics first when a major is not 1.                    *)
before_after(a, b, c) ==
    IF to_spec(a).panic # NoPanic THEN Panicked(to_spec(a).panic)
    ELSE IF to_spec(b).panic # NoPanic THEN Panicked(to_spec(b).panic)
    ELSE IF to_spec(c).panic # NoPanic THEN Panicked(to_spec(c).panic)
    ELSE Returned(
             [a_before_b |-> is_before_stable(a, to_spec(b).val),
              b_before_c |-> is_before_stable(b, to_spec(c).val),
              a_before_c |-> is_before_stable(a, to_spec(c).val),
              b_since_a |-> is_since_stable(b, to_spec(a).val),
              b_before_a |-> is_before_stable(b, to_spec(a).val)])

CallBeforeAfter ==
    /\ pc = "order"
    /\ \E b \in StableVersions, c \in StableVersions :
          call' = Called("before_after", <<b, c>>, before_after(rv, b, c))
    /\ pc' = "compared"
    /\ UNCHANGED build_vars
    /\ UNCHANGED <<has_const_panic, date, start, rv, spec, text>>

NextOrder == CallBeforeAfter

SpecOrder == InitOrder /\ [][NextOrder]_vars

-----------------------------------------------------------------------------
(* SpecBuild: main of the build script (build.rs), then the crate being    *)
(* compiled with what the script printed and wrote (lib.rs:28-42).         *)

MajorTwoLine == <<"r", "u", "s", "t", "c", " ", "2", ".", "5", "7", ".", "0">>
OldLine == <<"r", "u", "s", "t", "c", " ", "1", ".", "3", "1", ".", "0">>
DevLine == <<"r", "u", "s", "t", "c", " ", "1", ".", "4", "6", ".", "0", "-",
    "d", "e", "v">>
UsualLine == <<"r", "u", "s", "t", "c", " ", "1", ".", "8", "0", ".", "1",
    " ", "(", "3", "f", "5", "f", "d", "8", "d", "d", "4", " ", "2", "0", "2",
    "4", "-", "0", "8", "-", "0", "6", ")">>
BadDateLine == <<"r", "u", "s", "t", "c", " ", "1", ".", "8", "1", ".", "0",
    "-", "n", "i", "g", "h", "t", "l", "y", " ", "(", "6", " ", "2", "0", "2",
    "4", "-", "1", "3", "-", "4", "0", ")">>
ZeroYearLine == <<"r", "u", "s", "t", "c", " ", "1", ".", "4", "0", ".", "0",
    "-", "n", "i", "g", "h", "t", "l", "y", " ", "(", "6", " ", "0", "-", "1",
    "-", "1", ")">>

(* The last line of the output of the command, and the lines before it. *)
LastLines ==
    {StableLine, BetaLine, NightlyLine, ClippyLine, GarbageLine,
     MajorTwoLine, OldLine, DevLine, UsualLine, BadDateLine, ZeroYearLine}

BannerLines == {ClippyLine, StableLine}

(* stdout of the command: up to MaxBanners lines, then a last line, ended  *)
(* by a newline or not.                                                    *)
BuildOutputs ==
    UNION { { Concat([i \in 1 .. n |-> bs[i] \o <<"\n">>]) \o l \o e :
                bs \in [1 .. n -> BannerLines], l \in LastLines,
                e \in { <<>>, <<"\n">> } } :
            n \in 0 .. MaxBanners }

(* What command.output() and String::from_utf8 give (build.rs:27-46). *)
CommandOutcomes ==
    {[status |-> "ok", stdout |-> s] : s \in BuildOutputs} \cup
    {[status |-> e, stdout |-> <<>>] :
        e \in {"failed to run", "failed to parse output"}}

InitBuild ==
    /\ has_const_panic = FALSE
    /\ date = ZeroDate
    /\ start = ZeroDate
    /\ rv = IdleVersion
    /\ spec = IdleSpec
    /\ text = <<>>
    /\ call = NoCall
    /\ BuildIdle
    /\ pc = "loop"

(* The match on the parse result with every retry allowed. *)
loop_match_always_retries(result, flag) ==
    IF result.tag = "Success" THEN "break"
    ELSE IF result.tag = "OopsClippy" THEN "continue"
    ELSE "exit"

(* The match on the parse result (build.rs:48-62). *)
loop_match(result, flag) ==
    IF result.tag = "Success" THEN "break"
    ELSE IF result.tag = "OopsClippy" /\ ~flag THEN "continue"
    ELSE "exit"

(* The argument list of the command (build.rs:22-25), wrapper aside. *)
command_args(flag) ==
    (IF flag THEN <<"--rustc">> ELSE <<>>) \o <<"--version">>

(* One turn of the loop (build.rs:19-62): run the command, read its        *)
(* output, parse it, and break, continue or exit.                          *)
Detect ==
    /\ pc = "loop"
    /\ \E out \in CommandOutcomes :
          LET result == parse(out.stdout)
              step == loop_match(result, is_clippy_driver)
          IN  /\ commands' =
                     Append(commands,
                            [args |-> command_args(is_clippy_driver),
                             status |-> out.status,
                             stdout |-> out.stdout])
              /\ IF out.status # "ok"
                 THEN /\ pc' = "exit"
                      /\ UNCHANGED <<text, call, version, is_clippy_driver>>
                 ELSE /\ text' = out.stdout
                      /\ call' = Called("parse", <<out.stdout>>,
                                        Returned(result))
                      /\ version' =
                             IF step = "break" THEN result.version
                             ELSE version
                      /\ is_clippy_driver' =
                             IF step = "continue" THEN TRUE
                             ELSE is_clippy_driver
                      /\ pc' = IF step = "break" THEN "major"
                               ELSE IF step = "continue" THEN "loop"
                               ELSE "exit"
    /\ UNCHANGED <<has_const_panic, date, start, rv, spec, cfgs,
                   version_expr>>

(* The check of the major version letting every major pass. *)
major_supported_any(v) == TRUE

(* The check of the major version (build.rs:65). *)
major_supported(v) == v.major = 1

CheckMajor ==
    /\ pc = "major"
    /\ pc' = IF major_supported(version) THEN "cfgs" ELSE "exit"
    /\ UNCHANGED <<has_const_panic, date, start, rv, spec, text, call>>
    /\ UNCHANGED build_vars

(* The cargo lines printed for a minor version (build.rs:75-100). *)
cfg_lines(minor) ==
    (IF minor >= 32 THEN {"rustc-cfg=supports_macro_literal"} ELSE {})
    \cup
    (IF minor >= 40 THEN {"rustc-cfg=has_non_exhaustive"} ELSE {})
    \cup
    (IF minor >= 46
     THEN {"rustc-cfg=has_const_match", "rustc-cfg=has_track_caller"}
     ELSE {})
    \cup
    (IF minor >= 57 THEN {"rustc-cfg=has_const_panic"} ELSE {})
    \cup
    (IF minor >= 80
     THEN {"rustc-check-cfg=cfg(supports_macro_literal)",
           "rustc-check-cfg=cfg(has_non_exhaustive)",
           "rustc-check-cfg=cfg(has_const_match)",
           "rustc-check-cfg=cfg(has_track_caller)",
           "rustc-check-cfg=cfg(has_const_panic)",
           "rustc-check-cfg=cfg(host_os, values(\"windows\"))"}
     ELSE {})

EmitCfgs ==
    /\ pc = "cfgs"
    /\ cfgs' = cfg_lines(version.minor)
    /\ pc' = "write"
    /\ UNCHANGED <<has_const_panic, date, start, rv, spec, text, call>>
    /\ UNCHANGED <<is_clippy_driver, commands, version, version_expr>>

(* Writing the file (build.rs:102-105); both expect() panic, when OUT_DIR  *)
(* is not set and when the file cannot be written.                         *)
WriteVersionExpr ==
    /\ pc = "write"
    /\ \E out_dir \in {"not set", "failed to write", "written"} :
          IF out_dir = "written"
          THEN /\ version_expr' =
                      [written |-> TRUE, contents |-> debug_fmt(version)]
               /\ pc' = "host"
          ELSE /\ pc' = "panicked"
               /\ UNCHANGED version_expr
    /\ UNCHANGED <<has_const_panic, date, start, rv, spec, text, call>>
    /\ UNCHANGED <<is_clippy_driver, commands, version, cfgs>>

(* The cfg of the host (build.rs:107-110): the third part of $HOST. *)
HostCfg ==
    /\ pc = "host"
    /\ \E host \in {"not set", "windows", "linux"} :
          IF host = "not set"
          THEN /\ pc' = "panicked"
               /\ UNCHANGED cfgs
          ELSE /\ cfgs' =
                      cfgs \cup (IF host = "windows"
                                 THEN {"rustc-cfg=host_os=\"windows\""}
                                 ELSE {})
               /\ pc' = "built"
    /\ UNCHANGED <<has_const_panic, date, start, rv, spec, text, call>>
    /\ UNCHANGED <<is_clippy_driver, commands, version, version_expr>>

(* The crate compiled after its build script: RUST_VERSION is the          *)
(* expression of version.expr (lib.rs:28-42), and the cfgs printed are     *)
(* set.                                                                    *)
IncludeVersionExpr ==
    /\ pc = "built"
    /\ rv' = include_expr(version_expr.contents)
    /\ has_const_panic' = ("rustc-cfg=has_const_panic" \in cfgs)
    /\ pc' = "compiled"
    /\ UNCHANGED <<date, start, spec, text, call>>
    /\ UNCHANGED build_vars

NextBuild ==
    \/ Detect
    \/ CheckMajor
    \/ EmitCfgs
    \/ WriteVersionExpr
    \/ HostCfg
    \/ IncludeVersionExpr

SpecBuild == InitBuild /\ [][NextBuild]_vars

-----------------------------------------------------------------------------
(* The whole: any of the callers above. *)

Init ==
    \/ InitDate
    \/ InitVersion
    \/ InitFromStr
    \/ InitParse
    \/ InitOrder
    \/ InitBuild

Next ==
    \/ NextDate
    \/ NextVersion
    \/ NextFromStr
    \/ NextParse
    \/ NextOrder
    \/ NextBuild

Spec == Init /\ [][Next]_vars

-----------------------------------------------------------------------------
(* Properties of the parser. *)

(* The pieces of a text between its "\n", a "\r" before a "\n" dropped. *)
PiecesOf(t) ==
    LET ps == Split(t, "\n")
    IN  [i \in 1 .. Len(ps) |->
            IF i < Len(ps) /\ EndsWith(ps[i], <<"\r">>)
            THEN SubSeq(ps[i], 1, Len(ps[i]) - 1)
            ELSE ps[i]]

(* The last line of a text that is not empty, the empty line when every    *)
(* line is empty.                                                          *)
LastNonEmptyLine(t) ==
    LET ps == PiecesOf(t)
        full == {i \in 1 .. Len(ps) : Len(ps[i]) > 0}
    IN  IF full = {} THEN <<>>
        ELSE ps[CHOOSE i \in full : \A j \in full : j <= i]

(* The last line of a text, one final line end not starting another line. *)
LastLineOf(t) ==
    LET ps == PiecesOf(t)
    IN  IF Len(ps) > 1 /\ Len(ps[Len(ps)]) = 0 THEN ps[Len(ps) - 1]
        ELSE ps[Len(ps)]

(* Whether a text ends with an empty line: a line end after a line end. *)
EndsWithEmptyLine(t) ==
    \/ EndsWith(t, <<"\n", "\n">>)
    \/ EndsWith(t, <<"\n", "\r", "\n">>)

(* C10 as stated: the result of parse is the result of parsing only the    *)
(* last line that is not empty, so blank lines after the version line and  *)
(* banner lines before it do not change the outcome.                       *)
C10_LastNonEmptyLine ==
    call.op = "parse" => call.ret = parse(LastNonEmptyLine(text))

(* C10 amended: the result of parse is the result of parsing only the last *)
(* line of the input, where one final line end does not start another      *)
(* line: banner lines before the version line and one line end after it    *)
(* do not change the outcome, and an input whose last line is empty (an    *)
(* extra trailing newline) is Unrecognized.                                *)
C10_LastLine ==
    call.op = "parse" =>
        /\ call.ret = parse(LastLineOf(text))
        /\ EndsWithEmptyLine(text) => call.ret = Unrecognized

(* A version line after a banner of clippy and before one line end is      *)
(* parsed as if it stood alone.                                            *)
C10_Witness ==
    /\ call.op = "parse"
    /\ text = ClippyLine \o <<"\n">> \o StableLine \o <<"\n">>
    /\ call.ret = Success(RustVersion(1, 32, 0, Stable))

-----------------------------------------------------------------------------
(* Properties of the tokens of the chosen line. *)

(* The tokens of the line parse looks at: the line trimmed and split on    *)
(* single spaces.                                                          *)
TokensOf(t) == Split(Trim(LastLineOf(t)), " ")

RustcWord == <<"r", "u", "s", "t", "c">>
ClippyWord == <<"c", "l", "i", "p", "p", "y">>

(* C11: parse classifies the line by its first token: exactly "rustc"      *)
(* goes on to the version (Success or Unrecognized as parse_words          *)
(* decides, never OopsClippy); a first token starting with "clippy" gives  *)
(* OopsClippy whatever follows; any other first token, the empty one       *)
(* included, gives Unrecognized.                                           *)
C11_FirstToken ==
    call.op = "parse" =>
        LET tokens == TokensOf(text)
            first == tokens[1]
            rest == parse_words(Tail(tokens))
        IN  /\ first = RustcWord =>
                /\ call.ret # OopsClippy
                /\ call.ret =
                       IF rest.some THEN Success(rest.val) ELSE Unrecognized
            /\ first # RustcWord /\ StartsWith(first, ClippyWord) =>
                call.ret = OopsClippy
            /\ first # RustcWord /\ ~StartsWith(first, ClippyWord) =>
                call.ret = Unrecognized

(* A line "clippy-driver ..." with more tokens has been parsed. *)
C11_Witness ==
    /\ call.op = "parse"
    /\ Len(TokensOf(text)) > 1
    /\ TokensOf(text)[1] = <<"c", "l", "i", "p", "p", "y", "-", "d", "r", "i",
        "v", "e", "r">>
    /\ call.ret = OopsClippy

DevWord == <<"d", "e", "v">>
BetaWord == <<"b", "e", "t", "a">>
NightlyWord == <<"n", "i", "g", "h", "t", "l", "y">>

(* A token is an unsigned integer of 16 bits, and its value. *)
IsU16(tok) == ParseUInt(tok, U16Max).ok
U16Of(tok) == ParseUInt(tok, U16Max).val

(* C12: for a line "rustc MAJOR.MINOR[.PATCH][-CHANNEL]" whose channel is  *)
(* not "nightly", parse succeeds exactly when major and minor (and the     *)
(* patch, when there is one) are unsigned integers and the channel is      *)
(* absent, "dev" or starts with "beta"; the version then has the numbers   *)
(* read, patch 0 when absent, and the channel Stable, Dev or Beta.  Every  *)
(* other line of this form is Unrecognized.                                *)
C12_VersionAndChannel ==
    call.op = "parse" =>
        LET tokens == TokensOf(text)
            vc == Split(tokens[2], "-")
            digits == Split(vc[1], ".")
            numbersOk ==
                /\ Len(digits) >= 2
                /\ IsU16(digits[1])
                /\ IsU16(digits[2])
                /\ Len(digits) = 3 => IsU16(digits[3])
            channelOk ==
                \/ Len(vc) = 1
                \/ vc[2] = DevWord
                \/ StartsWith(vc[2], BetaWord)
            channel ==
                IF Len(vc) = 1 THEN Stable
                ELSE IF vc[2] = DevWord THEN Dev
                ELSE Beta
            patch == IF Len(digits) = 3 THEN U16Of(digits[3]) ELSE 0
        IN  (/\ Len(tokens) = 2
             /\ tokens[1] = RustcWord
             /\ Len(vc) <= 2
             /\ Len(digits) <= 3
             /\ Len(vc) = 2 => vc[2] # NightlyWord) =>
                IF numbersOk /\ channelOk
                THEN call.ret =
                         Success(RustVersion(U16Of(digits[1]),
                                             U16Of(digits[2]), patch,
                                             channel))
                ELSE call.ret = Unrecognized

(* "rustc 1.32-beta.2" has been parsed: no patch, a channel that starts    *)
(* with "beta".                                                            *)
C12_Witness ==
    /\ call.op = "parse"
    /\ text = <<"r", "u", "s", "t", "c", " ", "1", ".", "3", "2", "-", "b",
        "e", "t", "a", ".", "2">>
    /\ call.ret = Success(RustVersion(1, 32, 0, Beta))

-----------------------------------------------------------------------------
(* Properties of the nightly branch. *)

IsU8(tok) == ParseUInt(tok, U8Max).ok
U8Of(tok) == ParseUInt(tok, U8Max).val

(* The parts of a date token "YYYY-MM-DD)": the text before its last       *)
(* character, split on '-'.                                                *)
DateParts(tok) == Split(SubSeq(tok, 1, Len(tok) - 1), "-")

(* A date token: it ends with ')' and has exactly three integer parts. *)
IsDateToken(tok) ==
    /\ EndsWith(tok, <<")">>)
    /\ Len(DateParts(tok)) = 3
    /\ IsU16(DateParts(tok)[1])
    /\ IsU8(DateParts(tok)[2])
    /\ IsU8(DateParts(tok)[3])

DateOfToken(tok) ==
    Date(U16Of(DateParts(tok)[1]), U8Of(DateParts(tok)[2]),
         U8Of(DateParts(tok)[3]))

(* The line is "rustc V-nightly ..." with a version part V that parses. *)
IsNightlyLine(t) ==
    LET tokens == TokensOf(t)
        vc == Split(tokens[2], "-")
        digits == Split(vc[1], ".")
    IN  /\ Len(tokens) >= 2
        /\ tokens[1] = RustcWord
        /\ Len(vc) >= 2
        /\ vc[2] = NightlyWord
        /\ Len(digits) >= 2
        /\ IsU16(digits[1])
        /\ IsU16(digits[2])
        /\ Len(digits) >= 3 => IsU16(digits[3])

(* The numbers of the version part of such a line, on a channel. *)
NightlyLineVersion(t, channel) ==
    LET digits == Split(Split(TokensOf(t)[2], "-")[1], ".")
    IN  RustVersion(U16Of(digits[1]), U16Of(digits[2]),
                    IF Len(digits) >= 3 THEN U16Of(digits[3]) ELSE 0,
                    channel)

(* What the nightly branch gives when at least one word follows. *)
NightlyWithWords(t, ret) ==
    LET tail == Tail(Tail(TokensOf(t)))
    IN  IF Len(tail) = 1
        THEN IF StartsWith(tail[1], <<"(">>) /\ EndsWith(tail[1], <<")">>)
             THEN ret = Success(NightlyLineVersion(t, Dev))
             ELSE ret = Unrecognized
        ELSE IF StartsWith(tail[1], <<"(">>) /\ IsDateToken(tail[2])
             THEN ret = Success(NightlyLineVersion(
                                    t, Nightly(DateOfToken(tail[2]))))
             ELSE ret = Unrecognized

(* C13 as stated: the channel "nightly" needs a hash token starting with   *)
(* '(' and then either nothing further with the hash ending in ')' (Dev)   *)
(* or a date token of exactly three integer parts (Nightly of that date);  *)
(* any other shape, no further token at all included, is Unrecognized.     *)
C13_NightlyShape ==
    call.op = "parse" /\ IsNightlyLine(text) =>
        IF Len(TokensOf(text)) = 2 THEN call.ret = Unrecognized
        ELSE NightlyWithWords(text, call.ret)

(* C13, corrected: as above, except that "nightly" with no further token   *)
(* at all is a success on the channel Dev.                                 *)
C13_NightlyShapeOrNoToken ==
    call.op = "parse" /\ IsNightlyLine(text) =>
        IF Len(TokensOf(text)) = 2
        THEN call.ret = Success(NightlyLineVersion(text, Dev))
        ELSE NightlyWithWords(text, call.ret)

(* "rustc 1.81.0-nightly" alone has been parsed. *)
C13_Witness ==
    /\ call.op = "parse"
    /\ text = <<"r", "u", "s", "t", "c", " ", "1", ".", "8", "1", ".", "0",
        "-", "n", "i", "g", "h", "t", "l", "y">>
    /\ call.ret = Success(RustVersion(1, 81, 0, Dev))

-----------------------------------------------------------------------------
(* Properties of lines that deviate from the expected shape. *)

(* The version token of a line "rustc ...", split on '-', and its version  *)
(* part split on '.'.                                                      *)
VersionChannel(t) == Split(TokensOf(t)[2], "-")
VersionDigits(t) == Split(VersionChannel(t)[1], ".")

IsRustcLine(t) == Len(TokensOf(t)) >= 2 /\ TokensOf(t)[1] = RustcWord

HasNightlyKeyword(t) ==
    Len(VersionChannel(t)) >= 2 /\ VersionChannel(t)[2] = NightlyWord

(* The tokens after the version token. *)
WordsAfterVersion(t) == Tail(Tail(TokensOf(t)))

(* A wrong token count: tokens after the version (after the date when the  *)
(* channel is nightly), components after the patch, parts after the        *)
(* channel.                                                                *)
ExtraTokens(t) ==
    IF HasNightlyKeyword(t) THEN Len(WordsAfterVersion(t)) > 2
    ELSE Len(WordsAfterVersion(t)) > 0
ExtraComponents(t) == Len(VersionDigits(t)) > 3
ExtraChannelParts(t) == Len(VersionChannel(t)) > 2

(* A value that is not a number where digits are expected: major, minor,   *)
(* the patch when there is one.                                            *)
BadNumber(t) ==
    LET digits == VersionDigits(t)
    IN  \/ ~IsU16(digits[1])
        \/ Len(digits) < 2
        \/ ~IsU16(digits[2])
        \/ Len(digits) >= 3 /\ ~IsU16(digits[3])

(* Parentheses that do not match in the tokens after "nightly", or a date  *)
(* that is not one.                                                        *)
BadParentheses(t) ==
    LET tail == WordsAfterVersion(t)
    IN  /\ HasNightlyKeyword(t)
        /\ Len(tail) >= 1
        /\ \/ ~StartsWith(tail[1], <<"(">>)
           \/ Len(tail) = 1 /\ ~EndsWith(tail[1], <<")">>)
           \/ Len(tail) >= 2 /\ ~IsDateToken(tail[2])

(* The line without what exceeds the expected token count. *)
WithoutExtras(t) ==
    LET tokens == TokensOf(t)
        vc == VersionChannel(t)
        digits == VersionDigits(t)
        number == Join(SubSeq(digits, 1, Min(3, Len(digits))), <<".">>)
        vtoken == IF Len(vc) = 1 THEN number
                  ELSE Join(<<number, vc[2]>>, <<"-">>)
        keep == IF HasNightlyKeyword(t) THEN Min(4, Len(tokens)) ELSE 2
    IN  Join(<<tokens[1], vtoken>> \o SubSeq(tokens, 3, keep), <<" ">>)

(* C14 as stated: a line "rustc ..." with a wrong token count, a value     *)
(* that is not a number where digits are expected, or parentheses that do  *)
(* not match, is Unrecognized.                                             *)
C14_NoPartialResult ==
    (/\ call.op = "parse"
     /\ IsRustcLine(text)
     /\ \/ ExtraTokens(text)
        \/ ExtraComponents(text)
        \/ ExtraChannelParts(text)
        \/ BadNumber(text)
        \/ BadParentheses(text)) => call.ret = Unrecognized

(* C14, corrected: a value that is not a number where digits are expected  *)
(* and parentheses that do not match are Unrecognized; what exceeds the    *)
(* expected token count is not looked at, the result being that of the     *)
(* line without it.                                                        *)
C14_ExtrasIgnored ==
    call.op = "parse" /\ IsRustcLine(text) =>
        /\ BadNumber(text) \/ BadParentheses(text) =>
               call.ret = Unrecognized
        /\ call.ret = parse(WithoutExtras(text))

(* "rustc 1.32.0.9-dev-x (abc 2024-07-28)" has been parsed: a component    *)
(* after the patch, a part after the channel and tokens after the version. *)
C14_Witness ==
    /\ call.op = "parse"
    /\ text = <<"r", "u", "s", "t", "c", " ", "1", ".", "3", "2", ".", "0",
        ".", "9", "-", "d", "e", "v", "-", "x", " ", "(", "a", "b", "c", " ",
        "2", "0", "2", "4", "-", "0", "7", "-", "2", "8", ")">>
    /\ ExtraTokens(text) /\ ExtraComponents(text) /\ ExtraChannelParts(text)
    /\ call.ret = Success(RustVersion(1, 32, 0, Dev))

-----------------------------------------------------------------------------
(* Properties of the order of versions. *)

(* C16: comparing versions with the specs (major, minor, patch) of one     *)
(* another is a strict order: a before b and b before c give a before c,   *)
(* and a before b gives b since a and not b before a.                      *)
C16_StrictOrder ==
    call.op = "before_after" /\ call.panic = NoPanic =>
        /\ call.ret.a_before_b /\ call.ret.b_before_c => call.ret.a_before_c
        /\ call.ret.a_before_b =>
               call.ret.b_since_a /\ ~call.ret.b_before_a

(* A chain a before b before c has been compared, a having the larger      *)
(* patch and the smaller minor.                                            *)
C16_Witness ==
    /\ call.op = "before_after"
    /\ call.panic = NoPanic
    /\ call.ret.a_before_b
    /\ call.ret.b_before_c
    /\ rv.minor < call.args[1].minor
    /\ rv.patch > call.args[1].patch

-----------------------------------------------------------------------------
(* Properties of the build script. *)

(* An output with a clippy banner as its first line and a line rustc       *)
(* parses with success as its last, following it.                          *)
BannerThenRustc(out) ==
    /\ Len(PiecesOf(out)) >= 2
    /\ StartsWith(PiecesOf(out)[1], ClippyWord)
    /\ TokensOf(out)[1] = RustcWord
    /\ parse_line(LastLineOf(out)).tag = "Success"

(* The commands that gave such an output. *)
BannerRuns ==
    {i \in 1 .. Len(commands) :
        commands[i].status = "ok" /\ BannerThenRustc(commands[i].stdout)}

(* C15 as stated: when the output has a clippy banner as its first line    *)
(* and a rustc line following it, detection takes the retry path (the flag *)
(* is turned on and the command is run again) and only then succeeds.      *)
C15_RetryThenSuccess ==
    1 \in BannerRuns =>
        /\ is_clippy_driver
        /\ pc # "loop" => Len(commands) = 2

(* C15, corrected: such an output is parsed with success at once, as its   *)
(* last line says: the run that gave it is the last one, the loop has      *)
(* ended with the version of the rustc line, and the flag is as it was     *)
(* before that run; the retry path is taken only when the last line of the *)
(* first output starts with "clippy".                                      *)
C15_SuccessWithoutRetry ==
    /\ \A i \in BannerRuns :
          /\ i = Len(commands)
          /\ pc # "loop"
          /\ version = parse_line(LastLineOf(commands[i].stdout)).version
          /\ is_clippy_driver = (i = 2)
    /\ is_clippy_driver =>
          StartsWith(TokensOf(commands[1].stdout)[1], ClippyWord)

(* The first run gave the banner and "rustc 1.32.0", no second run was     *)
(* made and the crate has been compiled with that version.                 *)
C15_Witness ==
    /\ Len(commands) = 1
    /\ commands[1].stdout = ClippyLine \o <<"\n">> \o StableLine \o <<"\n">>
    /\ 1 \in BannerRuns
    /\ ~is_clippy_driver
    /\ pc = "compiled"
    /\ rv = RustVersion(1, 32, 0, Stable)

(* What parse made of the output of the i-th command. *)
ResultOf(i) == parse(commands[i].stdout)

(* The loop at the i-th command run, the last one so far. *)
AfterRun(i) ==
    IF commands[i].status # "ok" THEN pc = "exit"
    ELSE IF ResultOf(i).tag = "Success" THEN pc # "loop"
    ELSE IF ResultOf(i).tag = "OopsClippy" /\ i = 1
        THEN pc = "loop" /\ is_clippy_driver
    ELSE pc = "exit"

OneRetry ==
    /\ Len(commands) <= 2
    /\ \A i \in 1 .. Len(commands) :
          commands[i].args =
              IF i = 2 THEN <<"--rustc", "--version">> ELSE <<"--version">>
    /\ is_clippy_driver <=>
          /\ Len(commands) >= 1
          /\ commands[1].status = "ok"
          /\ ResultOf(1) = OopsClippy
    /\ Len(commands) = 2 => is_clippy_driver
    /\ Len(commands) = 0 => pc = "loop"
    /\ Len(commands) >= 1 => AfterRun(Len(commands))

(* C17: the loop permits one retry.  The flag starts off and is on exactly *)
(* when the first output was OopsClippy; it is never turned off; the       *)
(* command is run at most twice, with --rustc on the second run only; a    *)
(* second OopsClippy, Unrecognized at any time or a command that fails     *)
(* exits; and the loop always ends, in a version or in the exit: a turn    *)
(* of the loop can always be taken and each turn is one more of the at     *)
(* most two runs.                                                          *)
C17_OneRetry ==
    /\ []OneRetry
    /\ [](pc = "loop" => ENABLED Detect)
    /\ [][is_clippy_driver => is_clippy_driver']_vars
    /\ [][pc = "loop" => Len(commands') = Len(commands) + 1]_vars

(* The second run, with --rustc, gave a version and the script went on. *)
C17_Witness ==
    /\ Len(commands) = 2
    /\ commands[2].args = <<"--rustc", "--version">>
    /\ is_clippy_driver
    /\ ResultOf(1) = OopsClippy
    /\ ResultOf(2).tag = "Success"
    /\ pc = "compiled"

(* The loop has ended with a version whose major is not 1. *)
DetectedMajorNotOne ==
    /\ pc # "loop"
    /\ Len(commands) >= 1
    /\ commands[Len(commands)].status = "ok"
    /\ ResultOf(Len(commands)).tag = "Success"
    /\ ResultOf(Len(commands)).version.major # 1

(* C18: the version that reaches the generated constant has major 1.  A    *)
(* version.expr that is written, and the constant compiled from it, have   *)
(* major 1; cfg lines are printed for a version of major 1 only; when the  *)
(* parser succeeds with another major the script exits with nothing        *)
(* printed and nothing written; and a script that has exited has written   *)
(* no version.expr.                                                        *)
C18_MajorOne ==
    /\ version_expr.written => version_expr.contents.major = 1
    /\ pc = "compiled" => rv.major = 1
    /\ cfgs # {} => version.major = 1
    /\ DetectedMajorNotOne =>
          /\ pc \in {"major", "exit"}
          /\ cfgs = {}
          /\ ~version_expr.written
    /\ pc = "exit" => cfgs = {} /\ ~version_expr.written

(* "rustc 2.57.0" has been parsed with success and the script has exited. *)
C18_Witness ==
    /\ DetectedMajorNotOne
    /\ version = RustVersion(2, 57, 0, Stable)
    /\ pc = "exit"
    /\ cfgs = {}
    /\ ~version_expr.written

(* The range Date::new asserts (date.rs:38-40). *)
DateInRange(d) ==
    /\ d.year >= 1
    /\ d.month >= 1 /\ d.month <= MonthMax
    /\ d.day >= 1 /\ d.day <= DayMax

(* C19 as stated: the date of a Nightly channel the parser returns with    *)
(* success is in the range year >= 1, month 1..12, day 1..31, and so is    *)
(* the date of the detected version the crate is compiled with.            *)
C19_NightlyDateInRange ==
    /\ (/\ call.op = "parse"
        /\ call.ret.tag = "Success"
        /\ call.ret.version.channel.kind = "Nightly") =>
           DateInRange(call.ret.version.channel.date)
    /\ pc = "compiled" /\ rv.channel.kind = "Nightly" =>
           DateInRange(rv.channel.date)

====
